---- MODULE Spec2Model ----
(***************************************************************************)
(* Model of the IMPROVER command-line composition engine                   *)
(* (lib/improver/cli/__init__.py and lib/improver/cli/clize_framework.py). *)
(*                                                                         *)
(* Python values are records [k, s, id, sub]:                              *)
(*   k = "str"      a plain str, text s                                    *)
(*   k = "list"     a list, elements sub, identity id                      *)
(*   k = "carrier"  an ObjectAsStr, text s, original_object sub[1],        *)
(*                  identity id                                            *)
(*   k = "obj"      any other object, identity id                          *)
(*   k = "none"     None                                                   *)
(***************************************************************************)
EXTENDS Integers, Sequences, FiniteSets, TLC

VARIABLES
    pc,        \* position of the main pipeline / of the scenario being run
    command,   \* main(): the command parameter
    tokens,    \* main(): *args, the raw tokens after the command
    verbose,   \* main(): verbose flag
    dry_run,   \* main(): dry_run flag
    ui,        \* unbracket(): loop index i (0-based, as in the code)
    outargs,   \* unbracket(): current accumulation frame
    stack,     \* unbracket(): stack of suspended frames
    parsed,    \* main(): args after args = unbracket(args)
    err,       \* the exception that ended the run, if any
    frames,    \* execute_command(): the call stack of active invocations
    calls,     \* log of dispatcher calls, in order
    echo,      \* log of lines printed by execute_command
    result,    \* main(): value returned by the outermost execute_command
    nextId,    \* next fresh object identity
    objs,      \* ObjectAsStr scenario: objects alive
    lastIn,    \* ObjectAsStr scenario: argument of the last constructor call
    lastOut,   \* ObjectAsStr scenario: value returned by the last call
    fw,        \* clize_framework / with_output scenario state
    lastOp,    \* ObjectAsStr scenario: the function called last
    lastConv,  \* ObjectAsStr scenario: what the converter was called with
    nc         \* nowcast_extrapolate.process scenario state

vars == <<pc, command, tokens, verbose, dry_run, ui, outargs, stack, parsed,
          err, frames, calls, echo, result, nextId, objs, lastIn, lastOut, fw,
          lastOp, lastConv, nc>>

(***************************************************************************)
(* Bounds of the model.                                                    *)
(***************************************************************************)
MaxLen == 6

MaxWraps == 3

MaxArgs == 3

\* largest lead time and interval, in minutes, nowcast_extrapolate is given
MaxLead == 6

(***************************************************************************)
(* Python values.                                                          *)
(***************************************************************************)
Str(s) == [k |-> "str", s |-> s, id |-> 0, sub |-> <<>>]

List(xs, n) == [k |-> "list", s |-> "", id |-> n, sub |-> xs]

Obj(n) == [k |-> "obj", s |-> "", id |-> n, sub |-> <<>>]

None == [k |-> "none", s |-> "", id |-> 0, sub |-> <<>>]

NoErr == [kind |-> "none", pos |-> 0 - 1]

\* isinstance(x, str): ObjectAsStr is a subclass of str
IsStr(x) == x.k \in {"str", "carrier"}

\* isinstance(arg, (list, tuple))
IsNested(x) == x.k = "list"

\* isinstance(obj, cls) for cls = ObjectAsStr
IsCarrier(x) == x.k = "carrier"

(***************************************************************************)
(* unbracket                                                               *)
(***************************************************************************)
Alphabet == {"[", "]", "foo", "a"}

Leaves == Alphabet \ {"[", "]"}

TokenLists == UNION {[1..n -> Alphabet] : n \in 0..MaxLen}

\* mutant: the suspended frame is pushed empty, its leaves are lost
PushFrameLossy(stk, out) == Append(stk, <<>>)

\* stack.append(outargs)
PushFrame(stk, out) == Append(stk, out)

\* mutant: extend instead of append, the group is spliced into its parent
CloseFrameSpliced(stk, out) == stk[Len(stk)] \o out

\* stack[-1].append(outargs); outargs = stack.pop()  -- the new outargs
CloseFrame(stk, out) == Append(stk[Len(stk)], List(out, 0))

\* the stack after stack.pop()
PopFrame(stk) == SubSeq(stk, 1, Len(stk) - 1)

\* outargs.append(args[i])
AppendLeaf(out, tok) == Append(out, Str(tok))

\* mutant: the position is reported 1-based
MismatchAtOneBased(i) == [kind |-> "MismatchedBracket", pos |-> i + 1]

\* mismatch_msg % i
MismatchAt(i) == [kind |-> "MismatchedBracket", pos |-> i]

\* the test 'if stack:' after the loop
StackLeft(stk) == stk # <<>>


(***************************************************************************)
(* ObjectAsStr                                                             *)
(***************************************************************************)
\* cls.__module__ + '.' + cls.__name__ for cls = type(obj)
TypeName(obj) ==
    CASE obj.k = "str" -> "builtins.str"
      [] obj.k = "list" -> "builtins.list"
      [] obj.k = "none" -> "builtins.NoneType"
      [] obj.k = "carrier" -> "improver.cli.ObjectAsStr"
      [] OTHER -> "iris.cube.Cube"

\* hash(obj), or id(obj) when obj is unhashable: a process-local number,
\* here the identity the model gave the object
ObjKey(obj) == obj.id

\* ObjectAsStr.object2name(obj)
object2name(obj) == "<" \o TypeName(obj) \o "@" \o ToString(ObjKey(obj)) \o ">"

\* mutant: no test for an object that is wrapped already
ObjectAsStrNewRewraps(obj, name, n) ==
    [k |-> "carrier",
     s |-> IF name = <<>> THEN object2name(obj) ELSE name[1],
     id |-> n, sub |-> <<obj>>]

\* ObjectAsStr.__new__(cls, obj, name=None); name is <<>> for None and
\* <<text>> otherwise, n is the identity of a newly made carrier
ObjectAsStrNew(obj, name, n) ==
    IF IsCarrier(obj)
    THEN obj
    ELSE [k |-> "carrier",
          s |-> IF name = <<>> THEN object2name(obj) ELSE name[1],
          id |-> n, sub |-> <<obj>>]

\* ObjectAsStr(obj), as execute_command calls it
ObjectAsStr(obj, n) == ObjectAsStrNew(obj, <<>>, n)

\* the carrier's original_object attribute
original_object(c) == c.sub[1]

(***************************************************************************)
(* maybe_coerce_with and the value converters                              *)
(***************************************************************************)
\* load_cube(path): the data object read from the file named path
load_cube(path) == [k |-> "obj", s |-> path.s, id |-> 0, sub |-> <<>>]

\* getattr(obj, 'original_object', obj): only a carrier has the attribute
Unwrapped(obj) == IF IsCarrier(obj) THEN original_object(obj) ELSE obj

\* mutant: the argument is tested as it came, a carrier is not unwrapped
maybe_coerce_with_raw(obj) ==
    IF IsStr(obj)
    THEN [value |-> load_cube(obj), converted |-> <<obj>>]
    ELSE [value |-> obj, converted |-> <<>>]

\* maybe_coerce_with(convert, obj) for convert = load_cube: the value
\* returned and the arguments convert was called with
maybe_coerce_with(obj) ==
    LET o == Unwrapped(obj) IN
    IF IsStr(o)
    THEN [value |-> load_cube(o), converted |-> <<o>>]
    ELSE [value |-> o, converted |-> <<>>]

(***************************************************************************)
(* execute_command                                                         *)
(***************************************************************************)
\* SUBCOMMANDS_TABLE: the registered command names
Registry == {"foo"}

\* What dispatcher(progname, *args) can do with an argument list: the
\* command named by the first argument is looked up first; a registered
\* command has its arguments bound (a value converter may fail on a text
\* it is given) and is run, and returns a data object, a text, or None, or
\* raises.  n is the identity of a newly made result.
DispatchOutcomes(args, n) ==
    IF args = <<>>
    THEN {[raised |-> "ArgumentError", ran |-> FALSE, value |-> None]}
    ELSE IF args[1].s \notin Registry
    THEN {[raised |-> "UnknownCommand", ran |-> FALSE, value |-> None]}
    ELSE {[raised |-> "none", ran |-> TRUE, value |-> Obj(n)],
          [raised |-> "none", ran |-> TRUE, value |-> Str("text")],
          [raised |-> "none", ran |-> TRUE, value |-> None],
          [raised |-> "ArgumentError", ran |-> FALSE, value |-> None],
          [raised |-> "CommandError", ran |-> TRUE, value |-> None]}
         \cup {[raised |-> "CoercionError", ran |-> FALSE, value |-> None] :
                 j \in {j \in 2..Len(args) : args[j].k = "str"}}

\* args = list(args) on entry of execute_command; path is the position of
\* the invocation in the argument tree (kept for the properties only)
NewFrame(args, path, n, verb, dry) ==
    [args |-> args, i |-> 1, path |-> path, lid |-> n,
     verbose |-> verb, dry_run |-> dry]

\* mutant: every value is wrapped, a str too
WrapAlways(arg, n) == ObjectAsStr(arg, n)

\* mutant: nothing is wrapped
WrapNever(arg, n) == arg

\* if not isinstance(arg, str): arg = ObjectAsStr(arg)
WrapIfNotStr(arg, n) == IF ~IsStr(arg) THEN ObjectAsStr(arg, n) ELSE arg

\* args[i] = arg, and the loop moves on
StoreArg(fr, arg) == [fr EXCEPT !.args[fr.i] = arg, !.i = fr.i + 1]

\* the flags handed to the recursive call: verbose=verbose, dry_run=dry_run
NestedVerbose(flag) == flag

\* mutant: the recursive call is made without the dry_run flag
NestedDryRunDropped(flag) == FALSE

NestedDryRun(flag) == flag

\* mutant: the dry run returns an empty list
DryRunResultEmpty(fr) == List(<<>>, fr.lid)

\* if dry_run: result = args
DryRunResult(fr) == List(fr.args, fr.lid)

\* mutant: an exception of the dispatcher is swallowed, None is the result
PropagatesNever(o) == FALSE

\* mutant: an error of the binder is taken for an empty result
PropagatesUnlessBinding(o) == o.raised \notin {"none", "ArgumentError"}

\* result = dispatcher(progname, *args) stands in no try block: whatever
\* the dispatcher raises leaves execute_command
Propagates(o) == o.raised # "none"

\* what a call of the dispatcher did: the invocation it was made for, the
\* arguments it was given and how it ended
CallRecord(fr, o) ==
    [path |-> fr.path, args |-> fr.args, raised |-> o.raised, ran |-> o.ran,
     value |-> o.value]

\* print(progname, *args, ' -> ', ObjectAsStr.object2name(result))
EchoLine(args, res) ==
    [args |-> [j \in 1..Len(args) |-> args[j].s], res |-> object2name(res)]

\* if verbose or dry_run: print(...)
Top == frames[Len(frames)]

Echoed(log, args, res) ==
    IF Top.verbose \/ Top.dry_run THEN Append(log, EchoLine(args, res)) ELSE log

\* the frames once the current invocation has returned value to its caller
Returned(value, n) ==
    IF Len(frames) = 1
    THEN <<>>
    ELSE Append(SubSeq(frames, 1, Len(frames) - 2),
                StoreArg(frames[Len(frames) - 1], WrapIfNotStr(value, n)))

\* identities used by a return: one for a new result object, one for a
\* new carrier
IdsAfterReturn(value) ==
    nextId + 1 + (IF Len(frames) > 1 /\ ~IsStr(value) THEN 1 ELSE 0)

\* the parts of the state a scenario does not use
MainIdle ==
    /\ command = ""
    /\ tokens = <<>>
    /\ verbose = FALSE
    /\ dry_run = FALSE
    /\ ui = 0
    /\ outargs = <<>>
    /\ stack = <<>>
    /\ parsed = <<>>
    /\ err = NoErr
    /\ frames = <<>>
    /\ calls = <<>>
    /\ echo = <<>>
    /\ result = None

WrapIdle ==
    /\ objs = {}
    /\ lastIn = None
    /\ lastOut = None
    /\ lastOp = "none"
    /\ lastConv = <<>>

FwIdle == fw = None

NcIdle == nc = None

Init ==
    /\ pc = "unbracket"
    /\ command \in Leaves
    /\ tokens \in TokenLists
    /\ verbose \in BOOLEAN
    /\ dry_run \in BOOLEAN
    /\ ui = 0
    /\ outargs = <<>>
    /\ stack = <<>>
    /\ parsed = <<>>
    /\ err = NoErr
    /\ frames = <<>>
    /\ calls = <<>>
    /\ echo = <<>>
    /\ result = None
    /\ nextId = 1
    /\ WrapIdle
    /\ FwIdle
    /\ NcIdle

UnbracketOpen ==
    /\ pc = "unbracket"
    /\ ui < Len(tokens)
    /\ tokens[ui + 1] = "["
    /\ stack' = PushFrame(stack, outargs)
    /\ outargs' = <<>>
    /\ ui' = ui + 1
    /\ UNCHANGED <<lastOp, lastConv, nc,
                   pc, command, tokens, verbose, dry_run, parsed, err, frames,
                   calls, echo, result, nextId, objs, lastIn, lastOut, fw>>

UnbracketClose ==
    /\ pc = "unbracket"
    /\ ui < Len(tokens)
    /\ tokens[ui + 1] = "]"
    /\ stack # <<>>
    /\ outargs' = CloseFrame(stack, outargs)
    /\ stack' = PopFrame(stack)
    /\ ui' = ui + 1
    /\ UNCHANGED <<lastOp, lastConv, nc,
                   pc, command, tokens, verbose, dry_run, parsed, err, frames,
                   calls, echo, result, nextId, objs, lastIn, lastOut, fw>>

UnbracketCloseMismatch ==
    /\ pc = "unbracket"
    /\ ui < Len(tokens)
    /\ tokens[ui + 1] = "]"
    /\ stack = <<>>
    /\ err' = MismatchAt(ui)
    /\ pc' = "error"
    /\ UNCHANGED <<lastOp, lastConv, nc,
                   command, tokens, verbose, dry_run, ui, outargs, stack,
                   parsed, frames, calls, echo, result, nextId, objs, lastIn,
                   lastOut, fw>>

UnbracketLeaf ==
    /\ pc = "unbracket"
    /\ ui < Len(tokens)
    /\ tokens[ui + 1] \notin {"[", "]"}
    /\ outargs' = AppendLeaf(outargs, tokens[ui + 1])
    /\ ui' = ui + 1
    /\ UNCHANGED <<lastOp, lastConv, nc,
                   pc, command, tokens, verbose, dry_run, stack, parsed, err,
                   frames, calls, echo, result, nextId, objs, lastIn, lastOut,
                   fw>>

UnbracketEndMismatch ==
    /\ pc = "unbracket"
    /\ ui = Len(tokens)
    /\ StackLeft(stack)
    /\ err' = MismatchAt(Len(tokens))
    /\ pc' = "error"
    /\ UNCHANGED <<lastOp, lastConv, nc,
                   command, tokens, verbose, dry_run, ui, outargs, stack,
                   parsed, frames, calls, echo, result, nextId, objs, lastIn,
                   lastOut, fw>>

\* unbracket returns outargs; main then calls
\* execute_command(SUBCOMMANDS_DISPATCHER, progname, command, *args, ...)
UnbracketReturn ==
    /\ pc = "unbracket"
    /\ ui = Len(tokens)
    /\ ~StackLeft(stack)
    /\ parsed' = outargs
    /\ pc' = "exec"
    /\ frames' = <<NewFrame(<<Str(command)>> \o outargs, <<>>, nextId,
                           verbose, dry_run)>>
    /\ nextId' = nextId + 1
    /\ UNCHANGED <<lastOp, lastConv, nc,
                   command, tokens, verbose, dry_run, ui, outargs, stack, err,
                   calls, echo, result, objs, lastIn, lastOut, fw>>

\* loop body for an argument that is not a nested list
ExecLeaf ==
    /\ pc = "exec"
    /\ Top.i <= Len(Top.args)
    /\ ~IsNested(Top.args[Top.i])
    /\ frames' = [frames EXCEPT ![Len(frames)] =
                     StoreArg(Top, WrapIfNotStr(Top.args[Top.i], nextId))]
    /\ nextId' = IF IsStr(Top.args[Top.i]) THEN nextId ELSE nextId + 1
    /\ UNCHANGED <<lastOp, lastConv, nc,
                   pc, command, tokens, verbose, dry_run, ui, outargs, stack,
                   parsed, err, calls, echo, result, objs, lastIn, lastOut, fw>>

\* loop body for a nested list: the recursive call is entered
ExecRecurse ==
    /\ pc = "exec"
    /\ Top.i <= Len(Top.args)
    /\ IsNested(Top.args[Top.i])
    /\ frames' = Append(frames, NewFrame(Top.args[Top.i].sub,
                                         Append(Top.path, Top.i), nextId,
                                         NestedVerbose(Top.verbose),
                                         NestedDryRun(Top.dry_run)))
    /\ nextId' = nextId + 1
    /\ UNCHANGED <<lastOp, lastConv, nc,
                   pc, command, tokens, verbose, dry_run, ui, outargs, stack,
                   parsed, err, calls, echo, result, objs, lastIn, lastOut, fw>>

\* after the loop, dry run: result = args, echoed, returned to the caller
ExecDryRun ==
    /\ pc = "exec"
    /\ Top.i > Len(Top.args)
    /\ Top.dry_run
    /\ LET value == DryRunResult(Top) IN
        /\ echo' = Echoed(echo, Top.args, value)
        /\ frames' = Returned(value, nextId)
        /\ nextId' = IdsAfterReturn(value)
        /\ pc' = IF Len(frames) = 1 THEN "done" ELSE "exec"
        /\ result' = IF Len(frames) = 1 THEN value ELSE result
    /\ UNCHANGED <<lastOp, lastConv, nc,
                   command, tokens, verbose, dry_run, ui, outargs, stack,
                   parsed, err, calls, objs, lastIn, lastOut, fw>>

\* after the loop: result = dispatcher(progname, *args) returns
ExecDispatchReturn ==
    /\ pc = "exec"
    /\ Top.i > Len(Top.args)
    /\ ~Top.dry_run
    /\ \E o \in DispatchOutcomes(Top.args, nextId) :
        /\ ~Propagates(o)
        /\ calls' = Append(calls, CallRecord(Top, o))
        /\ echo' = Echoed(echo, Top.args, o.value)
        /\ frames' = Returned(o.value, nextId + 1)
        /\ nextId' = IdsAfterReturn(o.value)
        /\ pc' = IF Len(frames) = 1 THEN "done" ELSE "exec"
        /\ result' = IF Len(frames) = 1 THEN o.value ELSE result
    /\ UNCHANGED <<lastOp, lastConv, nc,
                   command, tokens, verbose, dry_run, ui, outargs, stack,
                   parsed, err, objs, lastIn, lastOut, fw>>

\* after the loop: dispatcher(progname, *args) raises; nothing catches it
ExecDispatchRaise ==
    /\ pc = "exec"
    /\ Top.i > Len(Top.args)
    /\ ~Top.dry_run
    /\ \E o \in DispatchOutcomes(Top.args, nextId) :
        /\ Propagates(o)
        /\ calls' = Append(calls, CallRecord(Top, o))
        /\ err' = [kind |-> o.raised, pos |-> 0 - 1]
        /\ pc' = "error"
    /\ UNCHANGED <<lastOp, lastConv, nc,
                   command, tokens, verbose, dry_run, ui, outargs, stack,
                   parsed, frames, echo, result, nextId, objs, lastIn,
                   lastOut, fw>>

Next ==
    \/ UnbracketOpen
    \/ UnbracketClose
    \/ UnbracketCloseMismatch
    \/ UnbracketLeaf
    \/ UnbracketEndMismatch
    \/ UnbracketReturn
    \/ ExecLeaf
    \/ ExecRecurse
    \/ ExecDryRun
    \/ ExecDispatchReturn
    \/ ExecDispatchRaise

Spec == Init /\ [][Next]_vars

(***************************************************************************)
(* ObjectAsStr and maybe_coerce_with called on the objects of a process    *)
(***************************************************************************)
\* the objects a process starts with: a text, None, a data object, a list
BaseObjects == {Str("a"), None, Obj(1), List(<<Str("a")>>, 2)}

\* the names a caller may give: none, or a text of its own
GivenNames == {<<>>, <<"cube">>}

InitWrap ==
    /\ pc = "wrap"
    /\ objs \in (SUBSET BaseObjects) \ {{}}
    /\ lastIn = None
    /\ lastOut = None
    /\ lastOp = "none"
    /\ lastConv = <<>>
    /\ nextId = 3
    /\ MainIdle
    /\ FwIdle
    /\ NcIdle

\* ObjectAsStr(x, name) for any object x alive, carriers included
WrapCall ==
    /\ pc = "wrap"
    /\ nextId < 3 + MaxWraps
    /\ \E x \in objs, name \in GivenNames :
        /\ lastIn' = x
        /\ lastOut' = ObjectAsStrNew(x, name, nextId)
        /\ objs' = objs \cup {lastOut'}
        /\ nextId' = IF lastOut' = x THEN nextId ELSE nextId + 1
    /\ lastOp' = "ObjectAsStr"
    /\ lastConv' = <<>>
    /\ UNCHANGED <<nc, pc, command, tokens, verbose, dry_run, ui, outargs, stack,
                   parsed, err, frames, calls, echo, result, fw>>

\* maybe_coerce_with(load_cube, x) for any object x alive
CoerceCall ==
    /\ pc = "wrap"
    /\ \E x \in objs :
        /\ lastIn' = x
        /\ lastOut' = maybe_coerce_with(x).value
        /\ lastConv' = maybe_coerce_with(x).converted
        /\ objs' = objs \cup {lastOut'}
    /\ lastOp' = "maybe_coerce_with"
    /\ UNCHANGED <<nc, pc, command, tokens, verbose, dry_run, ui, outargs,
                   stack, parsed, err, frames, calls, echo, result, nextId,
                   fw>>

NextWrap == WrapCall \/ CoerceCall

SpecWrap == InitWrap /\ [][NextWrap]_vars

\* C8: the constructor given a carrier returns that very carrier (same
\* identity, same text, same original_object), and no carrier ever holds a
\* carrier as its original_object.
C8_WrapIdempotent ==
    /\ (lastOp = "ObjectAsStr" /\ IsCarrier(lastIn)) =>
          /\ lastOut = lastIn
          /\ lastOut.id = lastIn.id
          /\ original_object(lastOut) = original_object(lastIn)
    /\ \A c \in objs \cup {lastOut} :
          IsCarrier(c) => ~IsCarrier(original_object(c))
    /\ \A c, d \in objs : (IsCarrier(c) /\ IsCarrier(d) /\ c.id = d.id) => c = d

C8_Witness ==
    /\ lastOp = "ObjectAsStr"
    /\ IsCarrier(lastIn)
    /\ original_object(lastIn) = Obj(1)
    /\ lastOut = lastIn
    /\ Cardinality({c \in objs : IsCarrier(c)}) = 1

(***************************************************************************)
(* with_output, and main of clize_framework.py                             *)
(***************************************************************************)
\* str.startswith
StartsWith(t, prefix) ==
    Len(t) >= Len(prefix) /\ SubSeq(t, 1, Len(prefix)) = prefix

\* str.partition('='): <<head, sep, tail>>
Partition(t) ==
    LET eqs == {n \in 1..Len(t) : SubSeq(t, n, n) = "="} IN
    IF eqs = {}
    THEN <<t, "", "">>
    ELSE LET n == CHOOSE n \in eqs : \A m \in eqs : n <= m
         IN  <<SubSeq(t, 1, n - 1), "=", SubSeq(t, n + 1, Len(t))>>

\* outopt = '--output'
outopt == "--output"

\* isinstance(arg, str) and arg.startswith(outopt)
IsOutOpt(arg) == IsStr(arg) /\ StartsWith(arg.s, outopt)

\* args[i + 1] for the argument at position pos of args, where i comes from
\* enumerate(args, 1): i is pos counted from 1, and the subscript counts
\* from 0, so the element read is the one two places after pos; IndexError
\* gives ''
FollowingArg(args, pos) ==
    IF pos + 2 <= Len(args) THEN args[pos + 2] ELSE Str("")

\* preprocess_command: the post_args it builds
PostArgs(args) ==
    LET opts == {n \in 1..Len(args) : IsOutOpt(args[n])} IN
    IF opts = {}
    THEN <<>>
    ELSE LET pos == CHOOSE n \in opts : \A m \in opts : n <= m
             parts == Partition(args[pos].s)
         IN  <<Str(outopt),
               IF parts[2] = "" THEN FollowingArg(args, pos) ELSE Str(parts[3])>>

\* preprocess_command(progname, command, *args)
preprocess_command(cmd, args) ==
    [command |-> cmd, args |-> args, post_args |-> PostArgs(args)]

\* postprocess_command(progname, result, *post_args)
postprocess_command(res, post_args) ==
    LET at == {n \in 1..Len(post_args) : post_args[n] = Str(outopt)} IN
    IF at = {} \/ (CHOOSE n \in at : \A m \in at : n <= m) + 1 > Len(post_args)
    THEN res
    ELSE None

\* 'if output:' -- None and '' are false
Truthy(x) == x.k = "str" /\ x.s # ""

\* with_output(wrapped, *args, output=None, **kwargs), for a wrapped command
\* that returned res: what is saved and what is returned
with_output(res, output) ==
    IF Truthy(output)
    THEN [saved |-> <<[obj |-> res, to |-> output.s]>>, ret |-> None]
    ELSE [saved |-> <<>>, ret |-> res]

\* The parameter binder's reading of the output option of a command line:
\* '--output=<v>' gives v, '--output' takes the next argument as its value
\* (none left: the binder rejects), no option gives None; the option given
\* twice is rejected.
RECURSIVE BindOutput(_, _)
BindOutput(args, seen) ==
    IF args = <<>>
    THEN [ok |-> TRUE, output |-> seen]
    ELSE LET parts == Partition(Head(args).s) IN
         IF parts[1] # outopt
         THEN BindOutput(Tail(args), seen)
         ELSE IF seen # None
         THEN [ok |-> FALSE, output |-> None]
         ELSE IF parts[2] = "="
         THEN BindOutput(Tail(args), Str(parts[3]))
         ELSE IF Len(args) < 2
         THEN [ok |-> FALSE, output |-> None]
         ELSE BindOutput(Tail(Tail(args)), args[2])

\* command-line arguments of a command
FwTokens == {"in", "p", "--output", "--output=p", "--output="}

FwArgLists == UNION {[1..n -> {Str(t) : t \in FwTokens}] : n \in 0..MaxArgs}

InitFw ==
    /\ pc = "fw_pre"
    /\ fw \in {[given |-> a, command |-> "", args |-> <<>>,
                post_args |-> <<>>, cmdres |-> None, saved |-> <<>>,
                final |-> None] : a \in FwArgLists}
    /\ nextId = 1
    /\ MainIdle
    /\ WrapIdle
    /\ NcIdle

\* command, args, post_args = command_preprocessor(progname, command, *args)
FwPreprocess ==
    /\ pc = "fw_pre"
    /\ LET r == preprocess_command("combine", fw.given) IN
       fw' = [fw EXCEPT !.command = r.command, !.args = r.args,
                        !.post_args = r.post_args]
    /\ pc' = "fw_run"
    /\ UNCHANGED <<lastOp, lastConv, nc,
                   command, tokens, verbose, dry_run, ui, outargs, stack,
                   parsed, err, frames, calls, echo, result, nextId, objs,
                   lastIn, lastOut>>

\* result = command_processor(...): the command runs under with_output with
\* the output the binder read
FwProcess ==
    /\ pc = "fw_run"
    /\ BindOutput(fw.args, None).ok
    /\ LET w == with_output(Obj(nextId), BindOutput(fw.args, None).output) IN
       fw' = [fw EXCEPT !.cmdres = w.ret, !.saved = w.saved]
    /\ nextId' = nextId + 1
    /\ pc' = "fw_post"
    /\ UNCHANGED <<lastOp, lastConv, nc,
                   command, tokens, verbose, dry_run, ui, outargs, stack,
                   parsed, err, frames, calls, echo, result, objs, lastIn,
                   lastOut>>

\* the binder rejects the command line: the error leaves main
FwReject ==
    /\ pc = "fw_run"
    /\ ~BindOutput(fw.args, None).ok
    /\ err' = [kind |-> "ArgumentError", pos |-> 0 - 1]
    /\ pc' = "fw_error"
    /\ UNCHANGED <<lastOp, lastConv, nc,
                   command, tokens, verbose, dry_run, ui, outargs, stack,
                   parsed, frames, calls, echo, result, nextId, objs, lastIn,
                   lastOut, fw>>

\* return command_postprocessor(progname, result, *post_args)
FwPostprocess ==
    /\ pc = "fw_post"
    /\ fw' = [fw EXCEPT !.final = postprocess_command(fw.cmdres, fw.post_args)]
    /\ pc' = "fw_done"
    /\ UNCHANGED <<lastOp, lastConv, nc,
                   command, tokens, verbose, dry_run, ui, outargs, stack,
                   parsed, err, frames, calls, echo, result, nextId, objs,
                   lastIn, lastOut>>

NextFw == FwPreprocess \/ FwProcess \/ FwReject \/ FwPostprocess

SpecFw == InitFw /\ [][NextFw]_vars

(***************************************************************************)
(* nowcast_extrapolate.process                                             *)
(***************************************************************************)
\* fraction, _ = np.modf(max_lead_time / accumulation_fidelity), tested
\* fraction != 0: the quotient of two positive ints has a fractional part
\* exactly when the division leaves a remainder
FractionNonZero(max_lead_time, accumulation_fidelity) ==
    max_lead_time % accumulation_fidelity # 0

\* forecast_plugin.process(time_interval, max_lead_time): one forecast per
\* lead time 0, time_interval, 2 * time_interval, ... up to max_lead_time;
\* a forecast is written as its lead time
ExtrapolatedLeadTimes(time_interval, max_lead_time) ==
    [j \in 1..(max_lead_time \div time_interval + 1) |->
        (j - 1) * time_interval]

\* forecast_cubes[::step] for step > 0
EveryNth(forecast_cubes, step) ==
    [j \in 1..((Len(forecast_cubes) + step - 1) \div step) |->
        forecast_cubes[(j - 1) * step + 1]]

\* the calls of process: which wind cubes are given, and the three times
NcInputs ==
    [speed_cube : BOOLEAN, direction_cube : BOOLEAN,
     u_cube : BOOLEAN, v_cube : BOOLEAN,
     max_lead_time : 1..MaxLead, lead_time_interval : 1..MaxLead,
     accumulation_fidelity : 0..MaxLead]

InitNc ==
    /\ pc = "nc_winds"
    /\ \E in \in NcInputs :
          nc = [speed_cube |-> in.speed_cube,
                direction_cube |-> in.direction_cube,
                u_cube |-> in.u_cube, v_cube |-> in.v_cube,
                max_lead_time |-> in.max_lead_time,
                lead_time_interval |-> in.lead_time_interval,
                accumulation_fidelity |-> in.accumulation_fidelity,
                time_interval |-> 0, forecast_cubes |-> <<>>,
                lead_time_filter |-> 0, returned |-> <<>>, raised |-> ""]
    /\ nextId = 1
    /\ MainIdle
    /\ WrapIdle
    /\ FwIdle

\* the wind cubes: speed and direction are resolved to u and v, u and v are
\* taken as they are, anything else raises ValueError
NcResolveWinds ==
    /\ pc = "nc_winds"
    /\ IF (nc.speed_cube /\ nc.direction_cube) /\ ~(nc.u_cube \/ nc.v_cube)
       THEN /\ nc' = [nc EXCEPT !.u_cube = TRUE, !.v_cube = TRUE]
            /\ pc' = "nc_interval"
       ELSE IF nc.u_cube /\ nc.v_cube /\ ~(nc.speed_cube \/ nc.direction_cube)
       THEN /\ nc' = nc
            /\ pc' = "nc_interval"
       ELSE /\ nc' = [nc EXCEPT !.raised = "MixedVelocities"]
            /\ pc' = "nc_error"
    /\ UNCHANGED <<lastOp, lastConv, command, tokens, verbose, dry_run, ui,
                   outargs, stack, parsed, err, frames, calls, echo, result,
                   nextId, objs, lastIn, lastOut, fw>>

\* time_interval = lead_time_interval, replaced by accumulation_fidelity
\* when that is positive and passes the test of the fraction
NcTimeInterval ==
    /\ pc = "nc_interval"
    /\ IF nc.accumulation_fidelity > 0
       THEN IF FractionNonZero(nc.max_lead_time, nc.accumulation_fidelity)
            THEN /\ nc' = [nc EXCEPT !.time_interval = nc.lead_time_interval,
                                     !.raised = "NotCleanlyDivisible"]
                 /\ pc' = "nc_error"
            ELSE /\ nc' = [nc EXCEPT
                              !.time_interval = nc.accumulation_fidelity]
                 /\ pc' = "nc_extrapolate"
       ELSE /\ nc' = [nc EXCEPT !.time_interval = nc.lead_time_interval]
            /\ pc' = "nc_extrapolate"
    /\ UNCHANGED <<lastOp, lastConv, command, tokens, verbose, dry_run, ui,
                   outargs, stack, parsed, err, frames, calls, echo, result,
                   nextId, objs, lastIn, lastOut, fw>>

\* forecast_cubes = forecast_plugin.process(time_interval, max_lead_time)
NcExtrapolate ==
    /\ pc = "nc_extrapolate"
    /\ nc' = [nc EXCEPT !.forecast_cubes =
                  ExtrapolatedLeadTimes(nc.time_interval, nc.max_lead_time)]
    /\ pc' = "nc_filter"
    /\ UNCHANGED <<lastOp, lastConv, command, tokens, verbose, dry_run, ui,
                   outargs, stack, parsed, err, frames, calls, echo, result,
                   nextId, objs, lastIn, lastOut, fw>>

\* lead_time_filter = lead_time_interval // time_interval, and the slice
\* forecast_cubes[::lead_time_filter], which raises ValueError for a step
\* of zero; what is left is returned
NcFilter ==
    /\ pc = "nc_filter"
    /\ LET lead_time_filter == nc.lead_time_interval \div nc.time_interval IN
       IF lead_time_filter = 0
       THEN /\ nc' = [nc EXCEPT !.lead_time_filter = lead_time_filter,
                                !.raised = "SliceStepZero"]
            /\ pc' = "nc_error"
       ELSE /\ nc' = [nc EXCEPT !.lead_time_filter = lead_time_filter,
                                !.returned = EveryNth(nc.forecast_cubes,
                                                      lead_time_filter)]
            /\ pc' = "nc_done"
    /\ UNCHANGED <<lastOp, lastConv, command, tokens, verbose, dry_run, ui,
                   outargs, stack, parsed, err, frames, calls, echo, result,
                   nextId, objs, lastIn, lastOut, fw>>

NextNc == NcResolveWinds \/ NcTimeInterval \/ NcExtrapolate \/ NcFilter

SpecNc == InitNc /\ [][NextNc]_vars

(***************************************************************************)
(* Properties of unbracket                                                 *)
(***************************************************************************)
\* unbracket has returned (main went on to execute_command)
Unbracketed == pc # "unbracket" /\ err.kind # "MismatchedBracket"

\* the token list a nested list stands for, brackets written back
RECURSIVE Serialize(_)
Serialize(xs) ==
    IF xs = <<>>
    THEN <<>>
    ELSE (IF Head(xs).k = "list"
          THEN <<"[">> \o Serialize(Head(xs).sub) \o <<"]">>
          ELSE <<Head(xs).s>>) \o Serialize(Tail(xs))

\* every element is a plain non-bracket str leaf or a list of such elements
RECURSIVE WellFormed(_)
WellFormed(xs) ==
    \A j \in 1..Len(xs) :
        \/ xs[j].k = "str" /\ xs[j].s \notin {"[", "]"}
        \/ xs[j].k = "list" /\ WellFormed(xs[j].sub)

\* depth-first, left-to-right sequence of the leaves
RECURSIVE Flatten(_)
Flatten(xs) ==
    IF xs = <<>>
    THEN <<>>
    ELSE (IF Head(xs).k = "list"
          THEN Flatten(Head(xs).sub)
          ELSE <<Head(xs).s>>) \o Flatten(Tail(xs))

\* the tokens with the bracket markers removed
DropBrackets(toks) == SelectSeq(toks, LAMBDA t : t \notin {"[", "]"})

\* nesting depth after the first n tokens
RECURSIVE Depth(_, _)
Depth(toks, n) ==
    IF n = 0
    THEN 0
    ELSE Depth(toks, n - 1) + (CASE toks[n] = "[" -> 1
                                 [] toks[n] = "]" -> 0 - 1
                                 [] OTHER -> 0)

Balanced(toks) ==
    /\ \A n \in 0..Len(toks) : Depth(toks, n) >= 0
    /\ Depth(toks, Len(toks)) = 0

\* 0-based indices of a ']' that closes nothing
BadCloses(toks) ==
    {n \in 0..(Len(toks) - 1) : toks[n + 1] = "]" /\ Depth(toks, n) = 0}

\* where the scan of an unbalanced list stops
MismatchPos(toks) ==
    IF BadCloses(toks) # {}
    THEN CHOOSE n \in BadCloses(toks) : \A m \in BadCloses(toks) : n <= m
    ELSE Len(toks)

\* C1: once unbracket has returned, its result is the nested list of the
\* stack algorithm: leaves are the non-bracket tokens, each matched group is
\* one nested list at the position of the group, so that writing the brackets
\* back gives the token list again; ['a','[','foo',']','a'] gives
\* ['a',['foo'],'a'] and '[' ']' gives an empty nested list.
C1_UnbracketNests ==
    Unbracketed =>
        /\ WellFormed(parsed)
        /\ Serialize(parsed) = tokens
        /\ tokens = <<"a", "[", "foo", "]", "a">> =>
               parsed = <<Str("a"), List(<<Str("foo")>>, 0), Str("a")>>
        /\ tokens = <<"[", "]">> => parsed = <<List(<<>>, 0)>>

C1_Witness ==
    /\ Unbracketed
    /\ tokens = <<"a", "[", "foo", "]", "a">>
    /\ parsed = <<Str("a"), List(<<Str("foo")>>, 0), Str("a")>>

\* C2: flattening the result of unbracket depth-first, left to right, gives
\* the tokens without the bracket markers, in the original order.
C2_FlattenRoundTrip ==
    Unbracketed => Flatten(parsed) = DropBrackets(tokens)

C2_Witness ==
    /\ Unbracketed
    /\ tokens = <<"[", "a", "[", "foo", "]", "]">>
    /\ Flatten(parsed) = <<"a", "foo">>

\* C3: unbracket raises Mismatched Bracket exactly when the brackets are
\* unbalanced, with the 0-based index of the first ']' that closes nothing,
\* or with len(tokens) when the scan ends with groups still open.
C3_MismatchIffUnbalanced ==
    pc # "unbracket" =>
        /\ (err.kind = "MismatchedBracket") <=> ~Balanced(tokens)
        /\ err.kind = "MismatchedBracket" => err.pos = MismatchPos(tokens)
        /\ tokens = <<"a", "]">> => err.pos = 1
        /\ tokens = <<"a", "[">> => err.pos = 2

C3_Witness ==
    /\ pc = "error"
    /\ tokens = <<"a", "[">>
    /\ err.kind = "MismatchedBracket"
    /\ err.pos = 2

(***************************************************************************)
(* Properties of execute_command                                           *)
(***************************************************************************)
\* the argument list main hands to the outermost execute_command
Tree == <<Str(command)>> \o parsed

\* the positions of the invocations of an argument list: <<>> is the list
\* itself, <<j>> \o p is invocation p of its j-th element
RECURSIVE PathsOf(_)
PathsOf(xs) ==
    {<<>>} \cup UNION {{<<j>> \o q : q \in PathsOf(xs[j].sub)} :
                        j \in {j \in 1..Len(xs) : xs[j].k = "list"}}

\* the argument list of the invocation at path q
RECURSIVE ArgsAt(_, _)
ArgsAt(xs, q) == IF q = <<>> THEN xs ELSE ArgsAt(xs[Head(q)].sub, Tail(q))

IsPrefix(a, b) == Len(a) <= Len(b) /\ SubSeq(b, 1, Len(a)) = a

ProperPrefix(a, b) == IsPrefix(a, b) /\ a # b

\* a comes before b when innermost invocations go first and siblings go
\* left to right
Before(a, b) ==
    \/ ProperPrefix(b, a)
    \/ \E n \in 1..Len(a) :
        /\ n <= Len(b)
        /\ SubSeq(a, 1, n - 1) = SubSeq(b, 1, n - 1)
        /\ a[n] < b[n]

Dispatched(q) == \E a \in 1..Len(calls) : calls[a].path = q

CallOf(q) == calls[CHOOSE a \in 1..Len(calls) : calls[a].path = q]

\* no invocation is dispatched twice; the dispatches come innermost first
\* and left to right; all of them, once the evaluation has returned
DispatchOrder ==
    /\ \A a, b \in 1..Len(calls) :
          a < b => /\ calls[a].path # calls[b].path
                   /\ Before(calls[a].path, calls[b].path)
    /\ \A a \in 1..Len(calls) :
          /\ calls[a].path \in PathsOf(Tree)
          /\ \A q \in PathsOf(Tree) :
                ProperPrefix(calls[a].path, q) =>
                    \E b \in 1..(a - 1) : calls[b].path = q
    /\ pc = "done" => \A q \in PathsOf(Tree) : Dispatched(q)

\* what the dispatcher is handed for the invocation of a call: the plain
\* arguments as they are, and at the place of every bracket group what
\* Passed(result of the group) says
ArgsReceived(Passed(_, _)) ==
    \A a \in 1..Len(calls) :
        LET c == calls[a]
            xs == ArgsAt(Tree, c.path)
        IN  /\ Len(c.args) = Len(xs)
            /\ \A j \in 1..Len(xs) :
                  IF xs[j].k = "list"
                  THEN /\ Dispatched(Append(c.path, j))
                       /\ Passed(c.args[j], CallOf(Append(c.path, j)).value)
                  ELSE c.args[j] = xs[j]

IsCarrierOf(arg, res) == IsCarrier(arg) /\ original_object(arg) = res

\* C4 (amended): without dry run no invocation is dispatched twice, nested
\* invocations are dispatched before the enclosing one and siblings left to
\* right, every invocation is dispatched once the evaluation returns, and
\* the enclosing command gets each nested result at the place of its
\* bracket group: as a carrier of the result when the result is not a str,
\* as the result itself when it is a str.
C4_NestedFirstAndPassed ==
    (Unbracketed /\ ~dry_run) =>
        /\ DispatchOrder
        /\ ArgsReceived(LAMBDA arg, res :
               IF IsStr(res) THEN arg = res ELSE IsCarrierOf(arg, res))

\* 'foo [ foo a a ] a': the inner foo(a, a) once, then foo(carrier, a)
C4_Witness ==
    /\ pc = "done"
    /\ ~dry_run
    /\ command = "foo"
    /\ tokens = <<"[", "foo", "a", "a", "]", "a">>
    /\ Len(calls) = 2
    /\ calls[1].args = <<Str("foo"), Str("a"), Str("a")>>
    /\ calls[1].value.k = "obj"
    /\ IsCarrierOf(calls[2].args[2], calls[1].value)
    /\ calls[2].args[3] = Str("a")

\* C4 as stated: every nested result arrives as a carrier.
C4_Original ==
    (Unbracketed /\ ~dry_run) =>
        /\ DispatchOrder
        /\ ArgsReceived(IsCarrierOf)

\* C5: with dry_run the dispatcher is never called, at any nesting level.
C5_DryRunNeverDispatches == dry_run => calls = <<>>

C5_Witness ==
    /\ pc = "done"
    /\ dry_run
    /\ tokens = <<"[", "foo", "[", "foo", "]", "]">>
    /\ Len(echo) = 3
    /\ calls = <<>>

\* the list a dry run returns for the argument list xs: plain arguments
\* unchanged, every bracket group a carrier, named after the list it holds,
\* of the list the dry run of the group returned
RECURSIVE DryShape(_, _)
DryShape(xs, res) ==
    /\ Len(res) = Len(xs)
    /\ \A j \in 1..Len(xs) :
          IF xs[j].k = "list"
          THEN /\ IsCarrier(res[j])
               /\ original_object(res[j]).k = "list"
               /\ res[j].s = "<builtins.list@"
                               \o ToString(original_object(res[j]).id) \o ">"
               /\ DryShape(xs[j].sub, original_object(res[j]).sub)
          ELSE res[j] = xs[j]

\* C6 (amended): a dry run returns and echoes, for an invocation, its plain
\* arguments unchanged and each nested sub-invocation as a carrier whose
\* text is the opaque name of a list and whose original_object is the list
\* the nested dry run returned; every invocation echoes a line of its own.
C6_DryRunReturnsCarriers ==
    (dry_run /\ pc = "done") =>
        /\ result.k = "list"
        /\ DryShape(Tree, result.sub)
        /\ Len(echo) = Cardinality(PathsOf(Tree))
        /\ echo[Len(echo)].args = [j \in 1..Len(Tree) |-> result.sub[j].s]

C6_Witness ==
    /\ pc = "done"
    /\ dry_run
    /\ command = "foo"
    /\ tokens = <<"[", "foo", "a", "]", "a">>
    /\ IsCarrier(result.sub[2])
    /\ original_object(result.sub[2]).sub = <<Str("foo"), Str("a")>>
    /\ echo[2].args[2] = "<builtins.list@2>"

\* C6 as stated: the returned argument list holds each nested
\* sub-invocation as its literal nested list, not as a carrier.
C6_Original ==
    (dry_run /\ pc = "done") =>
        /\ result.k = "list"
        /\ \A j \in 1..Len(Tree) :
              Tree[j].k = "list" =>
                  result.sub[j].k = "list" /\ ~IsCarrier(result.sub[j])

\* C7 (amended): a call of the dispatcher with a command name that is not
\* registered raises Unknown Command without running anything; it is made
\* after every nested sub-invocation among the arguments of that invocation
\* has been dispatched and has returned, and it is the last call: the error
\* ends the evaluation.
C7_UnknownCommandAborts ==
    \A a \in 1..Len(calls) :
        (calls[a].args # <<>> /\ calls[a].args[1].s \notin Registry) =>
            /\ calls[a].raised = "UnknownCommand"
            /\ ~calls[a].ran
            /\ a = Len(calls)
            /\ pc = "error"
            /\ err.kind = "UnknownCommand"
            /\ \A q \in PathsOf(Tree) :
                  ProperPrefix(calls[a].path, q) =>
                      Dispatched(q) /\ CallOf(q).raised = "none"

\* 'a [ foo ]': foo has run when a is found to be unknown
C7_Witness ==
    /\ pc = "error"
    /\ err.kind = "UnknownCommand"
    /\ command = "a"
    /\ tokens = <<"[", "foo", "]">>
    /\ Len(calls) = 2
    /\ calls[1].ran
    /\ calls[2].raised = "UnknownCommand"

\* C7 as stated: when Unknown Command is raised for an invocation, none of
\* the nested sub-invocations among its arguments has been evaluated.
C7_Original ==
    \A a \in 1..Len(calls) :
        calls[a].raised = "UnknownCommand" =>
            \A b \in 1..Len(calls) :
                ~ProperPrefix(calls[a].path, calls[b].path)

(***************************************************************************)
(* Properties of failure and of the arguments dispatched                   *)
(***************************************************************************)
\* C12: whatever a call of the dispatcher raises (unknown command, binder
\* rejection, coercion or command error) leaves the top-level
\* execute_command as it was raised and ends the evaluation with no result;
\* the raising call is the last call of the dispatcher, so neither a later
\* sibling nor an enclosing command is dispatched, and no invocation is
\* dispatched twice.
C12_FailFast ==
    /\ \A a \in 1..Len(calls) :
          calls[a].raised # "none" =>
              /\ a = Len(calls)
              /\ pc = "error"
              /\ err.kind = calls[a].raised
              /\ result = None
    /\ \A a, b \in 1..Len(calls) :
          calls[a].path = calls[b].path => a = b
    /\ pc = "done" =>
          \A a \in 1..Len(calls) : calls[a].raised = "none"

\* 'foo [ foo ] [ foo ]': the first nested foo fails; the second and the
\* enclosing foo are never dispatched
C12_Witness ==
    /\ pc = "error"
    /\ err.kind = "CommandError"
    /\ command = "foo"
    /\ tokens = <<"[", "foo", "]", "[", "foo", "]">>
    /\ Len(calls) = 1
    /\ calls[1].path = <<2>>
    /\ calls[1].raised = "CommandError"
    /\ ~Dispatched(<<3>>)
    /\ ~Dispatched(<<>>)

\* C13: every element of every argument list the dispatcher is called with
\* is a str, plain or carrier: never a list and never another object,
\* whatever the nesting and whatever the nested commands returned.
C13_DispatchedArgsAreStrings ==
    \A a \in 1..Len(calls) :
        \A j \in 1..Len(calls[a].args) :
            /\ calls[a].args[j].k \in {"str", "carrier"}
            /\ calls[a].args[j].k = "carrier" =>
                  Len(calls[a].args[j].sub) = 1

\* 'foo [ foo ] a': the nested foo returned None, and the enclosing foo is
\* called with a carrier of None and the text 'a'
C13_Witness ==
    /\ pc = "done"
    /\ command = "foo"
    /\ tokens = <<"[", "foo", "]", "a">>
    /\ Len(calls) = 2
    /\ calls[1].value = None
    /\ IsCarrier(calls[2].args[2])
    /\ original_object(calls[2].args[2]) = None
    /\ calls[2].args[3] = Str("a")

(***************************************************************************)
(* Properties of the output handling                                       *)
(***************************************************************************)
FwPreprocessed == pc \in {"fw_run", "fw_post", "fw_done", "fw_error"}

\* an argument that is the output option, in either form
IsOutputOption(arg) == arg.s = "--output" \/ StartsWith(arg.s, "--output=")

\* C9: a command run with an output destination persists its result exactly
\* once to that destination and main returns None; run without one it
\* persists nothing and main returns the result object itself; None is
\* returned in place of the result only when the result was persisted.
C9_OutputFinalizer ==
    pc = "fw_done" =>
        LET dest == BindOutput(fw.args, None).output IN
        /\ Truthy(dest) =>
              /\ fw.saved = <<[obj |-> Obj(1), to |-> dest.s]>>
              /\ fw.final = None
        /\ ~Truthy(dest) =>
              /\ fw.saved = <<>>
              /\ fw.final = Obj(1)
        /\ fw.final = None => fw.saved # <<>>

\* C10: preprocess_command returns command and args unchanged, and
\* post_args is ['--output', <path>] with <path> taken from
\* '--output=<path>', or from the token right after '--output', and is
\* empty when no argument is the output option.
C10_PreprocessOutput ==
    FwPreprocessed =>
        LET args == fw.given
            opts == {n \in 1..Len(args) : IsOutputOption(args[n])}
        IN  /\ fw.command = "combine"
            /\ fw.args = fw.given
            /\ IF opts = {}
               THEN fw.post_args = <<>>
               ELSE LET pos == CHOOSE n \in opts : \A m \in opts : n <= m
                        parts == Partition(args[pos].s)
                    IN  /\ parts[2] = "=" =>
                              fw.post_args = <<Str("--output"), Str(parts[3])>>
                        /\ (parts[2] = "" /\ pos < Len(args)) =>
                              fw.post_args = <<Str("--output"), args[pos + 1]>>

(***************************************************************************)
(* Properties of the coercion of arguments                                 *)
(***************************************************************************)
\* C11 as stated: maybe_coerce_with calls the converter exactly when its
\* argument is a plain str; for every carrier it returns the wrapped object
\* itself and calls no converter, for every plain str it returns the
\* converter's result on that str.
C11_Original ==
    lastOp = "maybe_coerce_with" =>
        /\ (lastConv # <<>>) <=> (lastIn.k = "str")
        /\ IsCarrier(lastIn) =>
              lastOut = original_object(lastIn) /\ lastConv = <<>>
        /\ lastIn.k = "str" =>
              lastOut = load_cube(lastIn) /\ lastConv = <<lastIn>>

\* C11 (amended): maybe_coerce_with returns the wrapped object itself and
\* calls no converter for a carrier of an object that is not a str, returns
\* the converter's result on the text for a plain str and on the wrapped
\* text for a carrier of a str, and returns any other object unchanged; the
\* converter is called at most once and on nothing else.
C11_CoerceUnwrappedText ==
    lastOp = "maybe_coerce_with" =>
        /\ (IsCarrier(lastIn) /\ original_object(lastIn).k # "str") =>
              lastOut = original_object(lastIn) /\ lastConv = <<>>
        /\ (IsCarrier(lastIn) /\ original_object(lastIn).k = "str") =>
              /\ lastOut = load_cube(original_object(lastIn))
              /\ lastConv = <<original_object(lastIn)>>
        /\ lastIn.k = "str" =>
              lastOut = load_cube(lastIn) /\ lastConv = <<lastIn>>
        /\ ~IsStr(lastIn) =>
              lastOut = lastIn /\ lastConv = <<>>

\* the carrier of a data object is coerced: the data object comes back
C11_Witness ==
    /\ lastOp = "maybe_coerce_with"
    /\ IsCarrier(lastIn)
    /\ original_object(lastIn) = Obj(1)
    /\ lastOut = Obj(1)
    /\ lastConv = <<>>

(***************************************************************************)
(* Properties of nowcast_extrapolate.process                               *)
(***************************************************************************)
\* the test of accumulation_fidelity lies behind
NcValidated ==
    \/ pc \in {"nc_extrapolate", "nc_filter", "nc_done"}
    \/ pc = "nc_error" /\ nc.raised = "SliceStepZero"

\* the filter step has been computed
NcFiltered ==
    \/ pc = "nc_done"
    \/ pc = "nc_error" /\ nc.raised = "SliceStepZero"

\* C14: a positive accumulation_fidelity that passes the validation is a
\* factor of lead_time_interval, the filter step is then the integer
\* lead_time_interval / accumulation_fidelity >= 1 and the forecasts
\* returned are exactly those at the multiples of lead_time_interval; a
\* positive accumulation_fidelity that is no factor of lead_time_interval
\* is rejected with the divisibility ValueError.
C14_FidelityFactorOfInterval ==
    nc.accumulation_fidelity > 0 =>
        /\ NcValidated =>
              nc.lead_time_interval % nc.accumulation_fidelity = 0
        /\ NcFiltered =>
              /\ nc.lead_time_filter >= 1
              /\ nc.lead_time_filter * nc.accumulation_fidelity =
                    nc.lead_time_interval
        /\ pc = "nc_done" =>
              /\ {nc.returned[j] : j \in 1..Len(nc.returned)} =
                    {t \in 0..nc.max_lead_time :
                        t % nc.lead_time_interval = 0}
              /\ \A j \in 1..(Len(nc.returned) - 1) :
                    nc.returned[j] < nc.returned[j + 1]
        /\ (/\ pc \notin {"nc_winds", "nc_interval"}
            /\ nc.raised # "MixedVelocities"
            /\ nc.lead_time_interval % nc.accumulation_fidelity # 0) =>
              pc = "nc_error" /\ nc.raised = "NotCleanlyDivisible"

====
